---- MODULE Spec2Model ----
(***************************************************************************)
(* A model of app_4.py: the divisional-workplan wizard (steps 1..8), its   *)
(* local persistence (master log, annexes, generated report) and the       *)
(* best-effort mirror of local files to a GitHub repository.               *)
(*                                                                         *)
(* Python values are modelled as follows: a dict is a function whose       *)
(* DOMAIN is the set of keys present, a list is a sequence, a str is a     *)
(* string, None is the string "<None>".                                    *)
(***************************************************************************)
EXTENDS Integers, Sequences, FiniteSets, TLC

VARIABLES
    \* configuration (module level, lines 23, 42-48)
    USE_GITHUB, GITHUB_TOKEN, GITHUB_REPO,
    \* the remote store: github_path -> [content, sha]; nextSha numbers the markers
    remote, nextSha,
    \* the calls of push_file_to_github made so far, in order
    pushLog,
    \* the data directory chosen at start-up (lines 28-32)
    LOCAL_DATA_DIR,
    \* the log files: path -> [kind, rows], kind "absent", "corrupt" or "table"
    logs,
    \* the calls of save_to_master_excel made so far, in order
    saveLog,
    \* the calls of save_to_master_excel under way in concurrent sessions:
    \* session -> what the call holds between its read and its write
    inflight,
    \* datetime.now(), in whole seconds
    clock,
    \* the annex directory: file name -> bytes
    annexDir,
    \* st.session_state.annex_saved_list: <<original name, saved path>>
    annex_saved_list,
    \* the calls of save_annexes_immediate made so far, in order
    annexLog,
    \* the generated reports: file path -> document
    docs,
    \* the calls of export_word made so far, in order
    exportLog,
    \* st.session_state.step, .submission, .last_file, .finish_msg
    step, submission, last_file, finish_msg,
    \* the widgets drawn by the last run of the script, by key: the part of
    \* st.session_state that Streamlit keeps for widgets
    ws,
    \* the last run of the script raised before reaching its end
    crashed,
    \* how many widget values the user has changed in this session
    edits,
    \* the callback the last interaction ran, and the step it ran at
    lastNav

None == "<None>"

\* dict.get(key, default)
Get(d, k, default) == IF k \in DOMAIN d THEN d[k] ELSE default

EmptyDict == <<>>

\* d with d[k] = v (k added when absent)
Put(d, k, v) == [x \in DOMAIN d \cup {k} |-> IF x = k THEN v ELSE d[x]]

----------------------------------------------------------------------------
(* Bounds of the model *)

\* calls of push_file_to_github made directly in SpecPush
MaxPushCalls == 2

\* calls of save_to_master_excel made directly in SpecLog
MaxSaveCalls == 2

\* calls of save_annexes_immediate made directly in SpecAnnex
MaxAnnexCalls == 3

\* files handed to one call of save_annexes_immediate
MaxUploaded == 1

\* the last second the clock reaches
MaxClock == 2

\* calls made in SpecCallers
MaxCallerCalls == 1

\* widget values the user changes in SpecForm
MaxEdits == 4

\* widget changes and clicks on "Finish and Generate Report" in one
\* session of Spec
MaxInteractions == 2

\* the largest number entered for custom objectives of a goal
MaxCustom == 1

\* the step up to which SpecNav calls next_step()
MaxNavStep == 10

\* the edits and Finish clicks of a session in SpecGate
MaxGateInteractions == 4

----------------------------------------------------------------------------
(* Configuration *)

\* The deployments: the toggle of line 23, the token and the repository of
\* the secrets (lines 42-43); with the toggle off the token is dropped (47-48).
Configurations ==
    { c \in [use : BOOLEAN, token : {None, "tok"}, repo : {"", "sergioalf14/repo"}] :
        ~c.use => c.token = None }

InitConfig ==
    \E c \in Configurations :
        /\ USE_GITHUB = c.use
        /\ GITHUB_TOKEN = c.token
        /\ GITHUB_REPO = c.repo

\* The three early returns of push_file_to_github (lines 58-63), as one test.
NotConfiguredNoTokenCheck == ~USE_GITHUB \/ GITHUB_REPO = ""

NotConfigured == ~USE_GITHUB \/ GITHUB_TOKEN = None \/ GITHUB_REPO = ""

NotConfiguredMsg ==
    IF ~USE_GITHUB THEN "GitHub upload disabled by configuration."
    ELSE IF GITHUB_TOKEN = None THEN "GITHUB_TOKEN missing in Streamlit secrets."
    ELSE "GITHUB_REPO not configured."

----------------------------------------------------------------------------
(* The remote store and the transport, as requests.get / requests.put see  *)
(* them.  A response is what the store answers ("faithful"), a 200 whose   *)
(* body gives no sha ("nosha"), an error status ("error") or a transport   *)
(* exception such as a timeout ("exception").                              *)

GetOutcomes == {"faithful", "nosha", "error", "exception"}
PutOutcomes == {"faithful", "error", "exception"}

\* What one call of push_file_to_github meets: the read of the local file,
\* the GET and the PUT.  Outcomes that the call never gets to are left out.
PushEnvs ==
    { e \in [local : {"ok", "fail"}, get : GetOutcomes, put : PutOutcomes] :
        /\ e.local = "fail" => (e.get = "faithful" /\ e.put = "faithful")
        /\ e.get \in {"error", "exception"} => e.put = "faithful" }

FaithfulEnv == [local |-> "ok", get |-> "faithful", put |-> "faithful"]

Sha(n) == "sha" \o ToString(n)

\* base64.b64encode(f.read()).decode("utf-8"), line 73
B64(bytes) == "b64:" \o bytes

\* requests.get(url): [raised, status, sha]
RemoteGet(rem, path, outcome) ==
    CASE outcome = "exception" -> [raised |-> TRUE, status |-> 0, sha |-> None]
      [] outcome = "error"     -> [raised |-> FALSE, status |-> 500, sha |-> None]
      [] outcome = "nosha" /\ path \in DOMAIN rem
                               -> [raised |-> FALSE, status |-> 200, sha |-> None]
      [] OTHER ->
            IF path \in DOMAIN rem
            THEN [raised |-> FALSE, status |-> 200, sha |-> rem[path].sha]
            ELSE [raised |-> FALSE, status |-> 404, sha |-> None]

\* requests.put(url, json=payload): [raised, status, remote, nextSha].  The
\* store creates a record when none exists (201), updates one when the
\* payload carries its current sha (200) and refuses otherwise (422); every
\* successful write gets a fresh marker.
RemotePut(rem, n, path, payload, outcome) ==
    LET written == [raised |-> FALSE,
                    status |-> IF path \in DOMAIN rem THEN 200 ELSE 201,
                    remote |-> Put(rem, path, [content |-> payload.content, sha |-> Sha(n)]),
                    nextSha |-> n + 1]
        refused(s) == [raised |-> FALSE, status |-> s, remote |-> rem, nextSha |-> n]
    IN  CASE outcome = "exception" ->
                [raised |-> TRUE, status |-> 0, remote |-> rem, nextSha |-> n]
          [] outcome = "error" -> refused(500)
          [] OTHER ->
                IF path \notin DOMAIN rem THEN written
                ELSE IF "sha" \in DOMAIN payload /\ payload.sha = rem[path].sha
                     THEN written
                     ELSE refused(422)

----------------------------------------------------------------------------
(* push_file_to_github, lines 53-112 *)

\* lines 94-101: the commit payload; sha is the marker read by the GET or None
CommitPayloadNoSha(sha, content_b64, github_path) ==
    [message |-> "Add " \o github_path, content |-> content_b64, branch |-> "main"]

CommitPayload(sha, content_b64, github_path) ==
    IF sha # None
    THEN [message |-> "Update " \o github_path, content |-> content_b64,
          branch |-> "main", sha |-> sha]
    ELSE [message |-> "Add " \o github_path, content |-> content_b64,
          branch |-> "main"]

NoPayload == [none |-> TRUE]

PushReturn(ok, kind, nGet, nPut, getStatus, payload, putStatus, rem, n) ==
    [ok |-> ok, kind |-> kind, nGet |-> nGet, nPut |-> nPut,
     getStatus |-> getStatus, payload |-> payload, putStatus |-> putStatus,
     remote |-> rem, nextSha |-> n]

\* As GetAccepted, the check of the status left out.
GetAcceptedAny(status_code) == TRUE

\* lines 84 and 90: the statuses of the GET after which the call goes on
GetAccepted(status_code) == status_code = 200 \/ status_code \in {404}

\* The call on a local file holding `bytes` (None: the file is missing).
\* kind names the return statement taken.
push_file_to_github(bytes, github_path, rem, n, env) ==
    IF NotConfigured
    THEN PushReturn(FALSE, "not_configured", 0, 0, 0, NoPayload, 0, rem, n)
    ELSE IF bytes = None \/ env.local = "fail"
    THEN PushReturn(FALSE, "local_read_failed", 0, 0, 0, NoPayload, 0, rem, n)
    ELSE
      LET r == RemoteGet(rem, github_path, env.get) IN
      IF r.raised
      THEN PushReturn(FALSE, "get_failed", 1, 0, 0, NoPayload, 0, rem, n)
      ELSE IF ~GetAccepted(r.status)
      THEN PushReturn(FALSE, "get_error", 1, 0, r.status, NoPayload, 0, rem, n)
      ELSE
        LET sha == IF r.status = 200 THEN r.sha ELSE None
            payload == CommitPayload(sha, B64(bytes), github_path)
            r2 == RemotePut(rem, n, github_path, payload, env.put)
        IN  IF r2.raised
            THEN PushReturn(FALSE, "put_failed", 1, 1, r.status, payload, 0, rem, n)
            ELSE IF r2.status \in {200, 201}
            THEN PushReturn(TRUE, "pushed", 1, 1, r.status, payload, r2.status,
                            r2.remote, r2.nextSha)
            ELSE PushReturn(FALSE, "upload_failed", 1, 1, r.status, payload,
                            r2.status, r2.remote, r2.nextSha)

\* What pushLog keeps of a call.
PushRecord(github_path, bytes, env, res) ==
    [path |-> github_path, bytes |-> bytes, env |-> env,
     ok |-> res.ok, kind |-> res.kind, nGet |-> res.nGet, nPut |-> res.nPut,
     getStatus |-> res.getStatus, payload |-> res.payload,
     putStatus |-> res.putStatus,
     marker |-> IF github_path \in DOMAIN res.remote
                THEN res.remote[github_path].sha ELSE None]

----------------------------------------------------------------------------
(* The master log, lines 15-37 and 147-201 *)

DATA_DIR_CANDIDATE == "/mount/data/workplan_data"

TempDir == "/tmp"

\* os.path.join(LOCAL_DATA_DIR, "master_log.xlsx"), line 35
MASTER_LOG == LOCAL_DATA_DIR \o "/master_log.xlsx"

\* os.path.join(tempfile.gettempdir(), "master_log.xlsx"), line 182
FallbackLog == TempDir \o "/master_log.xlsx"

LogPaths == {DATA_DIR_CANDIDATE \o "/master_log.xlsx", FallbackLog}

Absent == [kind |-> "absent", rows |-> <<>>]
Corrupt == [kind |-> "corrupt", rows |-> <<>>]
Table(rows) == [kind |-> "table", rows |-> rows]

\* str(d) of a dict d, line 423: the text that spells d out
Str(d) == [repr |-> d]

NaN == "<NaN>"
Blank == "<blank>"

\* DataFrame.to_excel writes an empty string and a missing value alike as an
\* empty cell; pd.read_excel reads an empty cell as a missing value (NaN).
ToCell(v) == IF v \in {"", NaN} THEN Blank ELSE v
FromCell(c) == IF c = Blank THEN NaN ELSE c

ToExcelRow(r) ==
    [timestamp |-> r.timestamp, division |-> ToCell(r.division),
     goals |-> ToCell(r.goals), data |-> r.data]

ReadExcelRow(c) ==
    [timestamp |-> c.timestamp, division |-> FromCell(c.division),
     goals |-> FromCell(c.goals), data |-> c.data]

\* df.to_excel(path, index=False) and pd.read_excel(path), row by row
ToExcel(df) == Table([i \in 1..Len(df) |-> ToExcelRow(df[i])])
ReadExcel(file) == [i \in 1..Len(file.rows) |-> ReadExcelRow(file.rows[i])]

\* What one call of save_to_master_excel meets: the read of the existing
\* file, the write at the log path (ok, PermissionError, another exception
\* that leaves the file as it was or half written), the write at the
\* fallback path, and the mirror.
SaveEnvs ==
    { e \in [read : {"ok", "fail"},
             write : {"ok", "permission", "other", "other_partial"},
             fallback : {"ok", "fail"},
             push : PushEnvs] :
        /\ e.write # "permission" => e.fallback = "ok"
        /\ (e.write \in {"other", "other_partial"}
              \/ (e.write = "permission" /\ e.fallback = "fail"))
            => e.push = FaithfulEnv }

\* lines 161-167: the rows read from the existing log, empty when there is
\* none or when it cannot be read
DfOldKeepPartial(file, read) ==
    IF file.kind = "table" /\ read = "ok"
    THEN ReadExcel(file)
    ELSE IF file.kind = "absent" THEN <<>>
    ELSE <<[timestamp |-> 0, division |-> NaN, goals |-> NaN, data |-> Str(EmptyDict)]>>

DfOld(file, read) ==
    IF file.kind = "table" /\ read = "ok"
    THEN ReadExcel(file)
    ELSE <<>>

\* lines 161-165: the existing log was there and reading it raised
ReadFailed(file, read) ==
    file.kind # "absent" /\ (file.kind = "corrupt" \/ read = "fail")

\* line 170: pd.concat([df_old, df_new], ignore_index=True)
ConcatNewFirst(df_old, df_new) == df_new \o df_old

Concat(df_old, df_new) == df_old \o df_new

\* The bytes of a file, as open(path, "rb").read() gives them.
LogBytes(file) == IF file.kind = "absent" THEN None ELSE "xlsx"

SaveReturn(ok, kind, local_master, lg, push, rem, n) ==
    [ok |-> ok, kind |-> kind, local_master |-> local_master, logs |-> lg,
     push |-> push, remote |-> rem, nextSha |-> n]

NoPush == [ok |-> FALSE, kind |-> "not_called"]

\* lines 197-201: the return once the local write is done
AfterMirrorStrict(success) ==
    [ok |-> success, kind |-> IF success THEN "ok" ELSE "ok_local_only"]

AfterMirror(success) ==
    [ok |-> TRUE, kind |-> IF success THEN "ok" ELSE "ok_local_only"]

\* lines 172-201: the write of df_final, the fallback and the mirror
WriteAndMirror(df_final, lg, rem, n, env) ==
    LET pushed(local_master, lg2) ==
            LET p == push_file_to_github(LogBytes(lg2[local_master]),
                                         "master_log.xlsx", rem, n, env.push)
                r == AfterMirror(p.ok)
            IN  SaveReturn(r.ok, r.kind, local_master, lg2, p, p.remote, p.nextSha)
    IN  CASE env.write = "ok" ->
                pushed(MASTER_LOG, [lg EXCEPT ![MASTER_LOG] = ToExcel(df_final)])
          [] env.write = "permission" ->
                IF env.fallback = "ok"
                THEN pushed(FallbackLog, [lg EXCEPT ![FallbackLog] = ToExcel(df_final)])
                ELSE SaveReturn(FALSE, "fallback_failed", MASTER_LOG, lg, NoPush, rem, n)
          [] env.write = "other" ->
                SaveReturn(FALSE, "write_failed", MASTER_LOG, lg, NoPush, rem, n)
          [] OTHER ->
                SaveReturn(FALSE, "write_failed", MASTER_LOG,
                           [lg EXCEPT ![MASTER_LOG] = Corrupt], NoPush, rem, n)

\* As SaveFrom, had the rows been read again at the moment of the write.
SaveFromRereading(row_dict, df_old, lg, rem, n, env) ==
    WriteAndMirror(Concat(DfOld(lg[MASTER_LOG], "ok"), <<row_dict>>), lg, rem, n, env)

\* lines 170-201: the call from the concatenation on, df_old being the rows
\* that lines 161-167 read, however long ago
SaveFrom(row_dict, df_old, lg, rem, n, env) ==
    WriteAndMirror(Concat(df_old, <<row_dict>>), lg, rem, n, env)

save_to_master_excel(row_dict, lg, rem, n, env) ==
    SaveFrom(row_dict, DfOld(lg[MASTER_LOG], env.read), lg, rem, n, env)

\* What saveLog keeps of a call.
SaveRecord(row_dict, before, env, res) ==
    [row |-> row_dict, before |-> before, env |-> env,
     readFailed |-> ReadFailed(before[MASTER_LOG], env.read),
     ok |-> res.ok, kind |-> res.kind, local_master |-> res.local_master,
     after |-> res.logs, push |-> [ok |-> res.push.ok, kind |-> res.push.kind]]

----------------------------------------------------------------------------
(* Annexes, lines 36 and 371-395 *)

\* os.path.join(LOCAL_DATA_DIR, "annexes"), line 36
ANNEX_DIR == LOCAL_DATA_DIR \o "/annexes"

\* os.path.join(ANNEX_DIR, name)
AnnexPath(name) == ANNEX_DIR \o "/" \o name

\* An uploaded file: its name, split as os.path.splitext splits it, and its
\* bytes.
FileName(f) == f.base \o f.ext

\* line 385: f"{base}_{int(datetime.now().timestamp())}{ext}"
StampedName(f, now) == f.base \o "_" \o ToString(now) \o f.ext

\* lines 381-385: the name the file is stored under
OutName(f, dir, now) ==
    IF FileName(f) \in DOMAIN dir THEN StampedName(f, now) ELSE FileName(f)

\* What the save of one file meets: the write of the file and the mirror.
AnnexEnvs == [write : {"ok", "fail"}, push : PushEnvs]

\* The state save_annexes_immediate works on.
AnnexState(dir, lst, saved, rem, n) ==
    [annexDir |-> dir, annex_saved_list |-> lst, saved |-> saved,
     remote |-> rem, nextSha |-> n]

\* lines 379-394: the body of the loop, for one file
SaveOneAnnex(f, st, now, env) ==
    LET out_name == OutName(f, st.annexDir, now)
        out_path == AnnexPath(out_name)
    IN  IF env.write = "fail"
        THEN [st EXCEPT !.saved = Append(@, [name |-> FileName(f), path |-> None,
                                             ok |-> FALSE, push |-> "not_called"])]
        ELSE
          LET dir2 == Put(st.annexDir, out_name, f.bytes)
              p == push_file_to_github(f.bytes, "annexes/" \o out_name,
                                       st.remote, st.nextSha, env.push)
          IN  AnnexState(dir2,
                         Append(st.annex_saved_list, <<FileName(f), out_path>>),
                         Append(st.saved, [name |-> FileName(f), path |-> out_path,
                                           ok |-> TRUE, push |-> p.kind]),
                         p.remote, p.nextSha)

\* lines 377-395: the loop over the uploaded files; envs[i] is what the
\* i-th file meets
RECURSIVE SaveAnnexLoop(_, _, _, _, _)
SaveAnnexLoop(uploaded_files, i, st, now, envs) ==
    IF i > Len(uploaded_files) THEN st
    ELSE SaveAnnexLoop(uploaded_files, i + 1,
                       SaveOneAnnex(uploaded_files[i], st, now, envs[i]), now, envs)

save_annexes_immediate(uploaded_files, dir, lst, rem, n, now, envs) ==
    SaveAnnexLoop(uploaded_files, 1, AnnexState(dir, lst, <<>>, rem, n), now, envs)

\* What annexLog keeps of a call.
AnnexRecord(files, now, envs, before, res) ==
    [files |-> files, now |-> now, envs |-> envs, before |-> before,
     saved |-> res.saved, after |-> res.annexDir]

----------------------------------------------------------------------------
(* export_word, lines 238-365 *)

\* lines 314-322: the names listed in the annex section
SafeNames(annex_items) ==
    [i \in 1..Len(annex_items) |->
        IF "original_name" \in DOMAIN annex_items[i]
        THEN annex_items[i].original_name
        ELSE annex_items[i].basename]

\* As AnnexSection, the one line written whatever the list holds.
AnnexSectionAlwaysLine(annex_items) ==
    [bullets |-> SafeNames(annex_items), lines |-> <<"No annexes uploaded.">>]

\* lines 324-327: the annex section, bullets or the one line
AnnexSection(annex_items) ==
    IF SafeNames(annex_items) # <<>>
    THEN [bullets |-> SafeNames(annex_items), lines |-> <<>>]
    ELSE [bullets |-> <<>>, lines |-> <<"No annexes uploaded.">>]

\* lines 244-327: the document built from the submission
Document(data) ==
    [cover |-> Get(data, "Cover", EmptyDict),
     goals |-> Get(data, "Selected Goals", <<>>),
     aggregate |-> Get(data, "Aggregate Objectives", EmptyDict),
     activities |-> Get(data, "Activities", EmptyDict),
     goal_metrics |-> Get(data, "Goal Metrics", EmptyDict),
     objective_metrics |-> Get(data, "Objective/Result Metrics", EmptyDict),
     additional |-> Get(data, "Additional", EmptyDict),
     annexes |-> AnnexSection(Get(data, "Annexes_Saved", <<>>))]

\* line 333: (cover.get("Division") or "division").strip().replace(" ", "_")
DivPart(data) ==
    LET d == Get(Get(data, "Cover", EmptyDict), "Division", "")
    IN  IF d = "" THEN "division" ELSE d

\* lines 334-336: the file name and path of the report
ReportName(data, now) == "workplan_" \o DivPart(data) \o "_" \o ToString(now) \o ".docx"
ReportPath(filename) == LOCAL_DATA_DIR \o "/" \o filename

\* What one call of export_word meets: the save of the document, the mirror.
ExportEnvs ==
    { e \in [save : {"ok", "fail"}, push : PushEnvs] :
        e.save = "fail" => e.push = FaithfulEnv }

ExportReturn(filepath, filename, msg, dcs, rem, n) ==
    [filepath |-> filepath, filename |-> filename, msg |-> msg,
     docs |-> dcs, remote |-> rem, nextSha |-> n]

\* lines 347-357: the message about the mirror; the path is returned with it
ExportAfterMirror(filepath, success) == filepath

export_word(data, dcs, rem, n, now, env) ==
    IF env.save = "fail"
    THEN ExportReturn(None, None, "export_word failed", dcs, rem, n)
    ELSE
      LET filename == ReportName(data, now)
          filepath == ReportPath(filename)
          p == push_file_to_github("docx", "workplans/" \o filename, rem, n, env.push)
          out == ExportAfterMirror(filepath, p.ok)
      IN  ExportReturn(out, IF out = None THEN None ELSE filename,
                       IF p.ok THEN "Pushed to GitHub" ELSE "GitHub push failed",
                       Put(dcs, filepath, Document(data)), p.remote, p.nextSha)

\* What exportLog keeps of a call.
ExportRecord(data, now, env, before, res) ==
    [data |-> data, now |-> now, env |-> env, before |-> before,
     filepath |-> res.filepath,
     filename |-> res.filename, msg |-> res.msg, after |-> res.docs]

----------------------------------------------------------------------------
(* Ordered dicts.  A Python dict whose iteration order the program relies  *)
(* on (enumerate(d.items())) is a sequence of [k, v] entries in insertion  *)
(* order, with unique keys.                                                *)

ODKeys(d) == [i \in 1..Len(d) |-> d[i].k]
ODHas(d, k) == \E i \in 1..Len(d) : d[i].k = k
ODGet(d, k, default) ==
    IF ODHas(d, k) THEN d[CHOOSE i \in 1..Len(d) : d[i].k = k].v ELSE default

\* d[k] = v: in place when k is a key already, at the end otherwise
ODSet(d, k, v) ==
    IF ODHas(d, k)
    THEN [i \in 1..Len(d) |-> IF d[i].k = k THEN [k |-> k, v |-> v] ELSE d[i]]
    ELSE Append(d, [k |-> k, v |-> v])

\* the dict built by assigning the entries of a sequence in order
RECURSIVE ODFromSeq(_)
ODFromSeq(entries) ==
    IF entries = <<>> THEN <<>>
    ELSE LET n == Len(entries)
         IN  ODSet(ODFromSeq(SubSeq(entries, 1, n - 1)), entries[n].k, entries[n].v)

\* [x for x in s if Keep(x)], for a set of kept values
FilterIn(s, kept) == SelectSeq(s, LAMBDA x : x \in kept)
FilterOut(s, dropped) == SelectSeq(s, LAMBDA x : x \notin dropped)

Range(s) == {s[i] : i \in 1..Len(s)}

\* the concatenation of a sequence of sequences
RECURSIVE Flatten(_)
Flatten(ss) == IF ss = <<>> THEN <<>> ELSE Head(ss) \o Flatten(Tail(ss))

----------------------------------------------------------------------------
(* Streamlit widgets.  A widget called with a key returns the value kept   *)
(* for that key when the previous run drew it, and its default otherwise;  *)
(* the state of a widget that a run does not draw is dropped at the end of *)
(* that run.  A widget is [kind, value, options]; kind says what the user  *)
(* may enter, "untouched" being a widget that the sessions of the model    *)
(* leave as it is drawn.                                                   *)
(* A widget is identified by its key: while it stays drawn it keeps the    *)
(* value the user gave it, whatever default later runs pass to it (the     *)
(* defaults the script passes are the values it stored from the widget).   *)

Widget(kind, value, options) == [kind |-> kind, value |-> value, options |-> options]

\* the value a widget call returns: the kept one, or the default
Value(w, key, default) == IF key \in DOMAIN w THEN w[key].value ELSE default

\* one widget call: the entry it leaves in the widget state
Draw(w, key, kind, default, options) ==
    [k |-> key, v |-> Widget(kind, Value(w, key, default), options)]

\* the widget state left by the calls of a run
WidgetState(calls) ==
    [key \in {calls[i].k : i \in 1..Len(calls)} |->
        calls[CHOOSE i \in 1..Len(calls) : calls[i].k = key].v]

\* a key drawn twice: Streamlit raises DuplicateWidgetID at the second call
HasDuplicateKey(calls) ==
    \E i, j \in 1..Len(calls) : i < j /\ calls[i].k = calls[j].k

\* str.strip() on the texts of the model
Strip(t) ==
    CASE t = " "     -> ""
      [] t = " c2 "  -> "c2"
      [] t = " r1"   -> "r1"
      [] OTHER       -> t

----------------------------------------------------------------------------
(* The lookup table strategic_alignment.xlsx (lines 15, 487-496, 522-530)  *)

\* sorted(df["strategic_goal"].dropna().unique().tolist()), line 496
goals == <<"G1", "G2">>

\* the objectives listed for a goal, in first-seen order, line 530
AggList(g) == IF g = "G1" THEN <<"A1", "A2">> ELSE <<"B1">>

----------------------------------------------------------------------------
(* The steps of the script, lines 450-783.  Each takes the widget state w  *)
(* left by the previous run (with the user's change in it) and the         *)
(* submission, and gives the widget calls it makes and the value it        *)
(* writes to its section of the submission.                                *)

Today == "2026-11-06"

CoverKeys == <<"Division", "Director", "Date", "Version", "FTEs",
               "Financial Resources", "Director Signature">>

\* STEP 1, lines 450-471
Step1Calls(w) ==
    << Draw(w, "division", "division", "", <<>>),
       Draw(w, "director", "untouched", "", <<>>),
       Draw(w, "date_entry", "untouched", Today, <<>>),
       Draw(w, "version", "untouched", "", <<>>),
       Draw(w, "ftes", "untouched", "", <<>>),
       Draw(w, "financial", "untouched", "", <<>>),
       Draw(w, "signature", "untouched", "Yes", <<"Yes", "No">>) >>

Step1Cover(w) ==
    LET c == Step1Calls(w) IN
    [k \in Range(CoverKeys) |->
        c[CHOOSE i \in 1..Len(CoverKeys) : CoverKeys[i] = k].v.value]

\* STEP 2, lines 483-509
Step2Calls(w, sub) ==
    << Draw(w, "selected_goals", "multiselect", Get(sub, "Selected Goals", <<>>), goals) >>

Step2Goals(w, sub) == Step2Calls(w, sub)[1].v.value

\* STEP 3, lines 520-571, for the goal at index g_idx (from 0)
Idx(i) == ToString(i)

OldSelected(sub, g) == ODGet(Get(sub, "Aggregate Objectives", <<>>), g, <<>>)
DefaultStandard(sub, g) == FilterIn(OldSelected(sub, g), Range(AggList(g)))
OldCustom(sub, g) == FilterOut(OldSelected(sub, g), Range(AggList(g)))

NumCustom(w, sub, g, g_idx) ==
    Value(w, "num_custom_" \o Idx(g_idx), Len(OldCustom(sub, g)))

\* lines 558-564: the text box i (from 0) of the goal
CustomBox(w, sub, g, g_idx, i) ==
    Draw(w, "custom_" \o Idx(g_idx) \o "_" \o Idx(i), "custom",
         IF i < Len(OldCustom(sub, g)) THEN OldCustom(sub, g)[i + 1] ELSE "", <<>>)

Step3GoalCalls(w, sub, g, g_idx) ==
    << Draw(w, "agg_" \o Idx(g_idx), "multiselect", DefaultStandard(sub, g), AggList(g)),
       Draw(w, "num_custom_" \o Idx(g_idx), "number", Len(OldCustom(sub, g)), <<>>) >>
    \o [i \in 1..NumCustom(w, sub, g, g_idx) |-> CustomBox(w, sub, g, g_idx, i - 1)]

\* lines 557-568: sel + custom_items
Step3GoalValue(w, sub, g, g_idx) ==
    LET calls == Step3GoalCalls(w, sub, g, g_idx)
        boxes == [i \in 1..(Len(calls) - 2) |-> Strip(calls[i + 2].v.value)]
    IN  calls[1].v.value \o FilterOut(boxes, {""})

Step3Calls(w, sub) ==
    LET sel == Get(sub, "Selected Goals", <<>>)
    IN  Flatten([i \in 1..Len(sel) |-> Step3GoalCalls(w, sub, sel[i], i - 1)])

\* lines 525 and 571: goal_to_agg starts empty and replaces the section;
\* the first definition is the section had the loop updated the old dict
Step3ObjectivesKeepOld(w, sub) ==
    LET sel == Get(sub, "Selected Goals", <<>>)
    IN  ODFromSeq(Get(sub, "Aggregate Objectives", <<>>)
                  \o [i \in 1..Len(sel) |->
                        [k |-> sel[i], v |-> Step3GoalValue(w, sub, sel[i], i - 1)]])

Step3Objectives(w, sub) ==
    LET sel == Get(sub, "Selected Goals", <<>>)
    IN  ODFromSeq([i \in 1..Len(sel) |->
                      [k |-> sel[i], v |-> Step3GoalValue(w, sub, sel[i], i - 1)]])

\* STEP 4, lines 582-620
NoActivities == [activities |-> <<>>, results |-> <<>>]

\* "\n".join(lines) and text.split("\n"): a text is the sequence of its lines
JoinLines(lines) == IF lines = <<>> THEN <<"">> ELSE lines

\* [x.strip() for x in text.split("\n") if x.strip()], lines 616-617
CleanLines(text) == FilterOut([i \in 1..Len(text) |-> Strip(text[i])], {""})

\* the (goal, objective) pairs in the order the loops of lines 592-594 meet
\* them, each with its indices
Step4Pairs(sub) ==
    LET ao == Get(sub, "Aggregate Objectives", <<>>)
    IN  Flatten([gi \in 1..Len(ao) |->
                    [ai \in 1..Len(ao[gi].v) |->
                        [g |-> ao[gi].k, agg |-> ao[gi].v[ai],
                         g_idx |-> gi - 1, a_idx |-> ai - 1]]])

Step4PairCalls(w, sub, p) ==
    LET prev_vals == ODGet(Get(sub, "Activities", <<>>), <<p.g, p.agg>>, NoActivities)
        sfx == Idx(p.g_idx) \o "_" \o Idx(p.a_idx)
    IN  << Draw(w, "act_" \o sfx, "lines_act", JoinLines(prev_vals.activities), <<>>),
           Draw(w, "res_" \o sfx, "lines_res", JoinLines(prev_vals.results), <<>>) >>

Step4Calls(w, sub) ==
    LET ps == Step4Pairs(sub)
    IN  Flatten([i \in 1..Len(ps) |-> Step4PairCalls(w, sub, ps[i])])

\* As Step4Activities, new_map starting from the stored mapping instead of {}.
Step4ActivitiesKeepOld(w, sub) ==
    LET ps == Step4Pairs(sub)
    IN  ODFromSeq(Get(sub, "Activities", <<>>)
                  \o [i \in 1..Len(ps) |->
                        LET c == Step4PairCalls(w, sub, ps[i]) IN
                        [k |-> <<ps[i].g, ps[i].agg>>,
                         v |-> [activities |-> CleanLines(c[1].v.value),
                                results |-> CleanLines(c[2].v.value)]]])

Step4Activities(w, sub) ==
    LET ps == Step4Pairs(sub)
    IN  ODFromSeq([i \in 1..Len(ps) |->
            LET c == Step4PairCalls(w, sub, ps[i]) IN
            [k |-> <<ps[i].g, ps[i].agg>>,
             v |-> [activities |-> CleanLines(c[1].v.value),
                    results |-> CleanLines(c[2].v.value)]]])

\* a metrics record, lines 650-655 and 688-693, from its four widget calls
MetricKeys == <<"FTEs", "Financial Resources", "KPIs", "Other Metrics">>

Metrics(calls) ==
    [k \in Range(MetricKeys) |->
        calls[CHOOSE i \in 1..Len(MetricKeys) : MetricKeys[i] = k].v.value]

\* STEP 5, lines 631-657
Step5GoalCalls(w, sub, g, g_idx) ==
    LET old == ODGet(Get(sub, "Goal Metrics", <<>>), g, EmptyDict) IN
    << Draw(w, "fte_" \o Idx(g_idx), "metric", Get(old, "FTEs", ""), <<>>),
       Draw(w, "fin_" \o Idx(g_idx), "untouched", Get(old, "Financial Resources", ""), <<>>),
       Draw(w, "kpi_" \o Idx(g_idx), "untouched", Get(old, "KPIs", ""), <<>>),
       Draw(w, "other_" \o Idx(g_idx), "untouched", Get(old, "Other Metrics", ""), <<>>) >>

Step5Calls(w, sub) ==
    LET sel == Get(sub, "Selected Goals", <<>>)
    IN  Flatten([i \in 1..Len(sel) |-> Step5GoalCalls(w, sub, sel[i], i - 1)])

Step5Metrics(w, sub) ==
    LET sel == Get(sub, "Selected Goals", <<>>)
    IN  ODFromSeq([i \in 1..Len(sel) |->
            [k |-> sel[i], v |-> Metrics(Step5GoalCalls(w, sub, sel[i], i - 1))]])

\* STEP 6, lines 668-711
Step6Gate(w) == Draw(w, "opt_obj_res", "radio", "No", <<"No", "Yes">>)

\* lines 683-686 and 699-702: the four widgets of one target
Step6TargetCalls(w, infix, sfx) ==
    << Draw(w, "fte_" \o infix \o sfx, "metric", "", <<>>),
       Draw(w, "fin_" \o infix \o sfx, "untouched", "", <<>>),
       Draw(w, "kpi_" \o infix \o sfx, "untouched", "", <<>>),
       Draw(w, "other_" \o infix \o sfx, "untouched", "", <<>>) >>

\* the targets of one Activities entry: the objective, then each result
Step6Targets(e) ==
    LET sfx == e.k[1] \o "_" \o e.k[2] IN
    << [tag |-> "AGGREGATE", infix |-> "agg_", sfx |-> sfx, g |-> e.k[1], agg |-> e.k[2]] >>
    \o [i \in 1..Len(e.v.results) |->
           [tag |-> "RES_" \o e.v.results[i], infix |-> "res_",
            sfx |-> sfx \o "_" \o e.v.results[i], g |-> e.k[1], agg |-> e.k[2]]]

Step6AllTargets(sub) ==
    LET am == Get(sub, "Activities", <<>>)
    IN  Flatten([i \in 1..Len(am) |-> Step6Targets(am[i])])

Step6Calls(w, sub) ==
    LET ts == Step6AllTargets(sub) IN
    << Step6Gate(w) >>
    \o (IF Step6Gate(w).v.value = "Yes"
        THEN Flatten([i \in 1..Len(ts) |-> Step6TargetCalls(w, ts[i].infix, ts[i].sfx)])
        ELSE <<>>)

\* As Step6Metrics, the section left as it was when the gate is at "No".
Step6MetricsKeepOld(w, sub) ==
    LET ts == Step6AllTargets(sub) IN
    IF Step6Gate(w).v.value = "Yes"
    THEN ODFromSeq([i \in 1..Len(ts) |->
            [k |-> <<ts[i].g, ts[i].agg, ts[i].tag>>,
             v |-> Metrics(Step6TargetCalls(w, ts[i].infix, ts[i].sfx))]])
    ELSE Get(sub, "Objective/Result Metrics", <<>>)

Step6Metrics(w, sub) ==
    LET ts == Step6AllTargets(sub) IN
    IF Step6Gate(w).v.value = "Yes"
    THEN ODFromSeq([i \in 1..Len(ts) |->
            [k |-> <<ts[i].g, ts[i].agg, ts[i].tag>>,
             v |-> Metrics(Step6TargetCalls(w, ts[i].infix, ts[i].sfx))]])
    ELSE <<>>

\* STEP 7, lines 723-739
AdditionalKeys ==
    << [k |-> "Partnerships", key |-> "add_partnerships", kind |-> "additional"],
       [k |-> "Events", key |-> "add_events", kind |-> "untouched"],
       [k |-> "Knowledge Products", key |-> "add_products", kind |-> "untouched"],
       [k |-> "Knowledge Management", key |-> "add_km", kind |-> "untouched"],
       [k |-> "Cross-Divisional Initiatives", key |-> "add_cross", kind |-> "untouched"],
       [k |-> "Projects/Networks", key |-> "add_projects", kind |-> "untouched"],
       [k |-> "Risks", key |-> "add_risks", kind |-> "untouched"],
       [k |-> "Other Information", key |-> "add_other", kind |-> "untouched"] >>

Step7Calls(w, sub) ==
    LET old == Get(sub, "Additional", EmptyDict) IN
    [i \in 1..Len(AdditionalKeys) |->
        Draw(w, AdditionalKeys[i].key, AdditionalKeys[i].kind,
             Get(old, AdditionalKeys[i].k, ""), <<>>)]

Step7Additional(w, sub) ==
    LET c == Step7Calls(w, sub) IN
    [k \in {AdditionalKeys[i].k : i \in 1..Len(AdditionalKeys)} |->
        c[CHOOSE i \in 1..Len(AdditionalKeys) : AdditionalKeys[i].k = k].v.value]

\* STEP 8, lines 750-777
Step8Calls(w) == << Draw(w, "annex_uploader", "files", <<>>, <<>>) >>

\* lines 774-777
AnnexesSaved(lst) ==
    [i \in 1..Len(lst) |-> [original_name |-> lst[i][1], saved_path |-> lst[i][2]]]

----------------------------------------------------------------------------
(* One run of the script, lines 450-783 *)

NumSteps == 8

\* As Owner, step 7 assigning its dict under the key of step 1.
OwnerSlip(s) ==
    CASE s = 1 -> "Cover"
      [] s = 2 -> "Selected Goals"
      [] s = 3 -> "Aggregate Objectives"
      [] s = 4 -> "Activities"
      [] s = 5 -> "Goal Metrics"
      [] s = 6 -> "Objective/Result Metrics"
      [] s = 7 -> "Cover"
      [] OTHER -> "Annexes_Saved"

\* the section of the submission that a step writes
Owner(s) ==
    CASE s = 1 -> "Cover"
      [] s = 2 -> "Selected Goals"
      [] s = 3 -> "Aggregate Objectives"
      [] s = 4 -> "Activities"
      [] s = 5 -> "Goal Metrics"
      [] s = 6 -> "Objective/Result Metrics"
      [] s = 7 -> "Additional"
      [] OTHER -> "Annexes_Saved"

\* What a run works on and leaves behind.
SessionState(sub, dir, lst, rem, n) ==
    [submission |-> sub, annexDir |-> dir, annex_saved_list |-> lst,
     remote |-> rem, nextSha |-> n]

\* a run that drew `calls` and left `sub`
Ran(calls, sub, st) ==
    [ws |-> WidgetState(calls), crashed |-> FALSE, submission |-> sub,
     annexDir |-> st.annexDir, annex_saved_list |-> st.annex_saved_list,
     remote |-> st.remote, nextSha |-> st.nextSha, annexRecs |-> <<>>]

\* a run that raised: the section is not written
Raised(calls, st) == [Ran(calls, st.submission, st) EXCEPT !.crashed = TRUE]

\* lines 750-777: step 8 saves whatever the uploader holds, on every run
RunStep8(w, st, now, env) ==
    LET calls == Step8Calls(w)
        uploaded == calls[1].v.value
        envs == [i \in 1..Len(uploaded) |-> env]
        res == save_annexes_immediate(uploaded, st.annexDir, st.annex_saved_list,
                                      st.remote, st.nextSha, now, envs)
    IN  IF uploaded = <<>>
        THEN Ran(calls, Put(st.submission, "Annexes_Saved",
                            AnnexesSaved(st.annex_saved_list)), st)
        ELSE [ws |-> WidgetState(calls), crashed |-> FALSE,
              submission |-> Put(st.submission, "Annexes_Saved",
                                 AnnexesSaved(res.annex_saved_list)),
              annexDir |-> res.annexDir, annex_saved_list |-> res.annex_saved_list,
              remote |-> res.remote, nextSha |-> res.nextSha,
              annexRecs |-> <<AnnexRecord(uploaded, now, envs, st.annexDir, res)>>]

\* The run of the script at step s with widget state w.  No `if` of the
\* script matches a step outside 1..8: the run draws nothing.
RunScript(s, w, st, now, env) ==
    LET sub == st.submission IN
    CASE s = 1 -> Ran(Step1Calls(w), Put(sub, Owner(1), Step1Cover(w)), st)
      [] s = 2 -> Ran(Step2Calls(w, sub), Put(sub, Owner(2), Step2Goals(w, sub)), st)
      [] s = 3 -> Ran(Step3Calls(w, sub), Put(sub, Owner(3), Step3Objectives(w, sub)), st)
      [] s = 4 -> Ran(Step4Calls(w, sub), Put(sub, Owner(4), Step4Activities(w, sub)), st)
      [] s = 5 -> Ran(Step5Calls(w, sub), Put(sub, Owner(5), Step5Metrics(w, sub)), st)
      [] s = 6 -> IF HasDuplicateKey(Step6Calls(w, sub))
                  THEN Raised(Step6Calls(w, sub), st)
                  ELSE Ran(Step6Calls(w, sub), Put(sub, Owner(6), Step6Metrics(w, sub)), st)
      [] s = 7 -> Ran(Step7Calls(w, sub), Put(sub, Owner(7), Step7Additional(w, sub)), st)
      [] s = 8 -> RunStep8(w, st, now, env.annex)
      [] OTHER -> Ran(<<>>, sub, st)

----------------------------------------------------------------------------
(* The callbacks, lines 136-141 and 400-440 *)

next_step(s) == s + 1

prev_step(s) == IF s > 1 THEN s - 1 ELSE s

\* the steps whose section draws a "Next" button (lines 478 ... 745)
HasNextButtonAtEveryStep(s) == s \in 1..NumSteps

HasNextButton(s) == s \in 1..7

\* the steps whose section draws a "Previous" button (lines 513 ... 781)
HasPrevButton(s) == s \in 2..8

\* ", ".join(list), line 422
RECURSIVE JoinComma(_)
JoinComma(list) ==
    IF list = <<>> THEN ""
    ELSE IF Len(list) = 1 THEN list[1]
    ELSE list[1] \o ", " \o JoinComma(Tail(list))

\* lines 403-405: the saved paths; each is kept with the name
\* os.path.basename gives for it (line 320)
SavedPaths(lst, dir) ==
    [i \in 1..Len(lst) |->
        [saved_path |-> lst[i][2],
         basename |-> CHOOSE name \in DOMAIN dir : AnnexPath(name) = lst[i][2]]]

\* lines 419-424: the row appended to the master log
FinishRow(sub, now) ==
    [timestamp |-> now,
     division |-> Get(Get(sub, "Cover", EmptyDict), "Division", ""),
     goals |-> JoinComma(Get(sub, "Selected Goals", <<>>)),
     data |-> Str(sub)]

\* As ReportMissing, the early return of lines 410-413 left out.
ReportMissingNever(filepath) == FALSE

\* line 410: `if not filepath`
ReportMissing(filepath) == filepath = None

finish_and_save(st, dir, dcs, lg, now, env) ==
    LET sub == Put(st.submission, "Annexes_Saved", SavedPaths(st.annex_saved_list, dir))
        x == export_word(sub, dcs, st.remote, st.nextSha, now, env.export)
        row == FinishRow(sub, now)
        sv == save_to_master_excel(row, lg, x.remote, x.nextSha, env.log)
    IN  IF ReportMissing(x.filepath)
        THEN [submission |-> sub, last_file |-> None, finish_msg |-> "export_failed",
              docs |-> x.docs, logs |-> lg, remote |-> x.remote, nextSha |-> x.nextSha,
              exportRec |-> ExportRecord(sub, now, env.export, dcs, x),
              saveRecs |-> <<>>]
        ELSE [submission |-> sub, last_file |-> x.filepath, finish_msg |-> sv.kind,
              docs |-> x.docs, logs |-> sv.logs, remote |-> sv.remote,
              nextSha |-> sv.nextSha,
              exportRec |-> ExportRecord(sub, now, env.export, dcs, x),
              saveRecs |-> <<SaveRecord(row, lg, env.log, sv)>>]

----------------------------------------------------------------------------
(* Variable groups and initial conditions *)

cfgVars == <<USE_GITHUB, GITHUB_TOKEN, GITHUB_REPO, LOCAL_DATA_DIR>>
netVars == <<remote, nextSha, pushLog>>
logVars == <<logs, saveLog, inflight>>
annexVars == <<annexDir, annex_saved_list, annexLog>>
docVars == <<docs, exportLog>>

sessionVars == <<step, submission, last_file, finish_msg, ws, crashed>>
wizVars == <<sessionVars, edits, lastNav>>

vars == <<cfgVars, netVars, logVars, clock, annexVars, docVars, wizVars>>

NoSection == [has |-> FALSE, value |-> <<>>]

\* what lastNav keeps of the section a step owns
SectionOf(sub, s) ==
    IF s \in 1..NumSteps /\ Owner(s) \in DOMAIN sub
    THEN [has |-> TRUE, value |-> sub[Owner(s)]]
    ELSE NoSection

\* lines 124-131, and the first run of the script, which draws step 1
FreshWizard ==
    /\ step = 1
    /\ ws = WidgetState(Step1Calls(<<>>))
    /\ submission = Put(EmptyDict, Owner(1), Step1Cover(<<>>))
    /\ last_file = None
    /\ finish_msg = None
    /\ crashed = FALSE
    /\ edits = 0
    /\ lastNav = [op |-> "start", from |-> 1, before |-> NoSection]

FreshAnnexes ==
    /\ annexDir = EmptyDict
    /\ annex_saved_list = <<>>
    /\ annexLog = <<>>

FreshDocs ==
    /\ docs = EmptyDict
    /\ exportLog = <<>>

\* The remote repository at start-up: empty, or holding a master log
\* mirrored by an earlier run.
InitRemote ==
    /\ remote \in {EmptyDict,
                   [p \in {"master_log.xlsx"} |-> [content |-> B64("xlsx"), sha |-> Sha(0)]]}
    /\ nextSha = 1
    /\ pushLog = <<>>

\* The sessions that may append to the log at the same time.
Sessions == {1, 2}

\* No call of save_to_master_excel is under way.
NotCalling ==
    [pc |-> "idle", df_old |-> <<>>, read |-> "ok", readAt |-> 0, wroteAt |-> 0,
     ok |-> FALSE, local_master |-> None]

OldRow == [timestamp |-> 0, division |-> "Old", goals |-> Blank, data |-> Str(EmptyDict)]

\* The data directory (lines 28-32) and the log found in it: none, an
\* unreadable one, or one row written by an earlier run.
InitLogs ==
    /\ LOCAL_DATA_DIR \in {DATA_DIR_CANDIDATE, TempDir}
    /\ \E f \in {Absent, Corrupt, Table(<<OldRow>>)} :
          logs = [p \in LogPaths |-> IF p = MASTER_LOG THEN f ELSE Absent]
    /\ saveLog = <<>>
    /\ inflight = [p \in Sessions |-> NotCalling]

\* A fresh deployment: nothing on disk, nothing mirrored.
FreshLogs ==
    /\ LOCAL_DATA_DIR = DATA_DIR_CANDIDATE
    /\ logs = [p \in LogPaths |-> Absent]
    /\ saveLog = <<>>
    /\ inflight = [p \in Sessions |-> NotCalling]

FreshRemote ==
    /\ remote = EmptyDict
    /\ nextSha = 1
    /\ pushLog = <<>>

----------------------------------------------------------------------------
(* SpecPush: push_file_to_github called directly *)

PushPaths == {"master_log.xlsx", "annexes/a.pdf"}
PushBytes == {"c1", "c2"}

PushCall(github_path, bytes, env) ==
    /\ Len(pushLog) < MaxPushCalls
    /\ NotConfigured => env = FaithfulEnv
    /\ LET res == push_file_to_github(bytes, github_path, remote, nextSha, env) IN
        /\ remote' = res.remote
        /\ nextSha' = res.nextSha
        /\ pushLog' = Append(pushLog, PushRecord(github_path, bytes, env, res))
    /\ UNCHANGED <<cfgVars, logVars, clock, annexVars, docVars, wizVars>>

InitPush == InitConfig /\ InitRemote /\ FreshLogs /\ clock = 1 /\ FreshAnnexes /\ FreshDocs /\ FreshWizard

NextPush == \E p \in PushPaths, b \in PushBytes, e \in PushEnvs : PushCall(p, b, e)

SpecPush == InitPush /\ [][NextPush]_vars

----------------------------------------------------------------------------
(* SpecLog: save_to_master_excel called directly *)

\* The rows appended: the k-th call's row carries timestamp k.
LogDivisions == {"", "Trade"}

\* The mirror outcomes met in SpecLog.
LogPushEnvs == {FaithfulEnv, [local |-> "ok", get |-> "exception", put |-> "faithful"]}

SaveStep(division, env) ==
    /\ NotConfigured => env.push = FaithfulEnv
    /\ LET row == [timestamp |-> Len(saveLog) + 1, division |-> division,
                   goals |-> "G1", data |-> Str(EmptyDict)]
           res == save_to_master_excel(row, logs, remote, nextSha, env)
       IN  /\ logs' = res.logs
           /\ remote' = res.remote
           /\ nextSha' = res.nextSha
           /\ saveLog' = Append(saveLog, SaveRecord(row, logs, env, res))
    /\ UNCHANGED <<cfgVars, pushLog, inflight, clock, annexVars, docVars, wizVars>>

InitLog ==
    /\ \E c \in {c \in Configurations : c.use /\ c.repo # ""} :
          /\ USE_GITHUB = c.use
          /\ GITHUB_TOKEN = c.token
          /\ GITHUB_REPO = c.repo
    /\ InitRemote
    /\ InitLogs
    /\ clock = 1 /\ FreshAnnexes /\ FreshDocs /\ FreshWizard

SaveCall(division, env) ==
    /\ Len(saveLog) < MaxSaveCalls
    /\ env.push \in LogPushEnvs
    /\ SaveStep(division, env)

NextLog == \E d \in LogDivisions, e \in SaveEnvs : SaveCall(d, e)

SpecLog == InitLog /\ [][NextLog]_vars

----------------------------------------------------------------------------
(* SpecRace: two sessions call save_to_master_excel on the same log; the  *)
(* read of lines 161-167 and the write of lines 175-190 are separate      *)
(* steps, nothing in the function holding the file between them           *)

\* The row session p appends.
RaceRow(p) ==
    [timestamp |-> p, division |-> "Trade", goals |-> "G1", data |-> Str(EmptyDict)]

\* The reads and writes begun so far.
RaceTicks ==
    Cardinality({p \in Sessions : inflight[p].pc # "idle"})
      + Cardinality({p \in Sessions : inflight[p].pc = "done"})

\* lines 159-167 in session p
RaceRead(p, read) ==
    /\ inflight[p].pc = "idle"
    /\ inflight' = [inflight EXCEPT ![p] =
            [@ EXCEPT !.pc = "read", !.df_old = DfOld(logs[MASTER_LOG], read),
                      !.read = read, !.readAt = RaceTicks + 1]]
    /\ UNCHANGED <<cfgVars, netVars, logs, saveLog, clock, annexVars, docVars, wizVars>>

\* lines 170-201 in session p
RaceWrite(p, env) ==
    /\ inflight[p].pc = "read"
    /\ env.read = inflight[p].read
    /\ env.push = FaithfulEnv
    /\ \E res \in {SaveFrom(RaceRow(p), inflight[p].df_old, logs, remote, nextSha, env)} :
          /\ logs' = res.logs
          /\ remote' = res.remote
          /\ nextSha' = res.nextSha
          /\ saveLog' = Append(saveLog, SaveRecord(RaceRow(p), logs, env, res))
          /\ inflight' = [inflight EXCEPT ![p] =
                  [@ EXCEPT !.pc = "done", !.wroteAt = RaceTicks + 1,
                            !.ok = res.ok, !.local_master = res.local_master]]
    /\ UNCHANGED <<cfgVars, pushLog, clock, annexVars, docVars, wizVars>>

NextRace ==
    \/ \E p \in Sessions, r \in {"ok", "fail"} : RaceRead(p, r)
    \/ \E p \in Sessions, e \in SaveEnvs : RaceWrite(p, e)

SpecRace == InitLog /\ [][NextRace]_vars

----------------------------------------------------------------------------
(* SpecAnnex: save_annexes_immediate called directly, the clock ticking *)

\* The files a user uploads: a.pdf with either content, and a file whose
\* own name has the form of a stamped name.
UploadFiles ==
    {[base |-> "a", ext |-> ".pdf", bytes |-> "x"],
     [base |-> "a", ext |-> ".pdf", bytes |-> "y"],
     [base |-> "a_1", ext |-> ".pdf", bytes |-> "z"]}

\* The non-empty lists of at most MaxUploaded files.
UploadLists == UNION {[1..k -> UploadFiles] : k \in 1..MaxUploaded}

\* The mirror outcomes met in SpecAnnex.
AnnexPushEnvs == {FaithfulEnv, [local |-> "ok", get |-> "exception", put |-> "faithful"]}

\* envs is a list of what each file meets
AnnexEnvsFor(files, pushEnvs) ==
    { envs \in [1..Len(files) -> AnnexEnvs] :
        \A i \in 1..Len(files) :
            /\ envs[i].push \in pushEnvs
            /\ (NotConfigured \/ envs[i].write = "fail") => envs[i].push = FaithfulEnv }

AnnexStep(files, envs) ==
    LET res == save_annexes_immediate(files, annexDir, annex_saved_list,
                                      remote, nextSha, clock, envs)
    IN  /\ annexDir' = res.annexDir
        /\ annex_saved_list' = res.annex_saved_list
        /\ remote' = res.remote
        /\ nextSha' = res.nextSha
        /\ annexLog' = Append(annexLog, AnnexRecord(files, clock, envs, annexDir, res))
        /\ UNCHANGED <<cfgVars, pushLog, logVars, clock, docVars, wizVars>>

AnnexCall(files, envs) ==
    /\ Len(annexLog) < MaxAnnexCalls
    /\ AnnexStep(files, envs)

\* datetime.now() moves on
Tick ==
    /\ clock < MaxClock
    /\ clock' = clock + 1
    /\ UNCHANGED <<cfgVars, netVars, logVars, annexVars, docVars, wizVars>>

InitAnnex ==
    /\ \E c \in {c \in Configurations : c.use /\ c.repo # ""} :
          /\ USE_GITHUB = c.use
          /\ GITHUB_TOKEN = c.token
          /\ GITHUB_REPO = c.repo
    /\ FreshRemote /\ FreshLogs /\ clock = 1 /\ FreshAnnexes /\ FreshDocs /\ FreshWizard

NextAnnex ==
    \/ \E files \in UploadLists :
          \E envs \in AnnexEnvsFor(files, AnnexPushEnvs) : AnnexCall(files, envs)
    \/ Tick

SpecAnnex == InitAnnex /\ [][NextAnnex]_vars

----------------------------------------------------------------------------
(* SpecCallers: each caller of push_file_to_github called directly, with   *)
(* every outcome of the mirror; save_annexes_immediate is handed one file, *)
(* the mirror being called for each file of a list alike                   *)

\* The submissions handed to export_word.
\* The annex lists handed to export_word: none, the records of step 8
\* (lines 774-777), the paths of finish_and_save (lines 403-405).
ExportAnnexes ==
    {<<>>,
     <<[original_name |-> "a.pdf", saved_path |-> AnnexPath("a.pdf")]>>,
     <<[saved_path |-> AnnexPath("a_1.pdf"), basename |-> "a_1.pdf"],
       [saved_path |-> AnnexPath("b.pdf"), basename |-> "b.pdf"]>>}

ExportData ==
    {EmptyDict, [k \in {"Cover"} |-> [Division |-> "Trade"]]}
      \cup {[k \in {"Annexes_Saved"} |-> items] : items \in ExportAnnexes}

ExportStep(data, env) ==
    /\ NotConfigured => env.push = FaithfulEnv
    /\ LET res == export_word(data, docs, remote, nextSha, clock, env) IN
        /\ docs' = res.docs
        /\ remote' = res.remote
        /\ nextSha' = res.nextSha
        /\ exportLog' = Append(exportLog, ExportRecord(data, clock, env, docs, res))
    /\ UNCHANGED <<cfgVars, pushLog, logVars, clock, annexVars, wizVars>>

CallsMade == Len(saveLog) + Len(exportLog) + Len(annexLog)

CallerSave(division, env) == CallsMade < MaxCallerCalls /\ SaveStep(division, env)
CallerExport(data, env) == CallsMade < MaxCallerCalls /\ ExportStep(data, env)
CallerAnnex(files, envs) == CallsMade < MaxCallerCalls /\ AnnexStep(files, envs)

InitCallers ==
    /\ InitConfig /\ InitRemote /\ InitLogs
    /\ clock = 1 /\ FreshAnnexes /\ FreshDocs /\ FreshWizard

NextCallers ==
    \/ \E d \in LogDivisions, e \in SaveEnvs : CallerSave(d, e)
    \/ \E data \in ExportData, e \in ExportEnvs : CallerExport(data, e)
    \/ \E f \in UploadFiles :
          \E envs \in AnnexEnvsFor(<<f>>, PushEnvs) : CallerAnnex(<<f>>, envs)

SpecCallers == InitCallers /\ [][NextCallers]_vars

----------------------------------------------------------------------------
(* Spec: a session of the wizard.  The user changes a widget, or clicks    *)
(* Next, Previous or Finish; the callback of the button runs, then the     *)
(* script runs again from the top.                                         *)

\* What the user enters.
CoverTexts == {"", "Trade"}
CustomTexts == {"", "c1", " c2 "}
ActTexts == {<<"">>, <<"a1">>}
ResTexts == {<<"">>, <<"r1">>, <<"r1", "", " r1">>}
MetricTexts == {"", "5"}
AddTexts == {"", "note"}

\* the files the user uploads in a session
SessionFiles == {f \in UploadFiles : f.bytes \in {"x", "z"}}

\* the values the user can give a drawn widget, by its kind
Entries(wd) ==
    CASE wd.kind = "division" -> CoverTexts
      [] wd.kind = "radio" -> Range(wd.options)
      [] wd.kind = "multiselect" ->
            {Append(wd.value, o) : o \in Range(wd.options) \ Range(wd.value)}
            \cup {FilterOut(wd.value, {o}) : o \in Range(wd.value)}
      [] wd.kind = "number" ->
            {n \in {wd.value - 1, wd.value + 1} : n \in 0..MaxCustom}
      [] wd.kind = "custom" -> CustomTexts
      [] wd.kind = "lines_act" -> ActTexts
      [] wd.kind = "lines_res" -> ResTexts
      [] wd.kind = "metric" -> MetricTexts
      [] wd.kind = "additional" -> AddTexts
      [] wd.kind = "files" ->
            {Append(wd.value, f) : f \in IF Len(wd.value) < MaxUploaded
                                         THEN SessionFiles ELSE {}}
            \cup {SubSeq(wd.value, 1, i - 1) \o SubSeq(wd.value, i + 1, Len(wd.value)) :
                    i \in 1..Len(wd.value)}
      [] OTHER -> {}

Choices(wd) == Entries(wd) \ {wd.value}

\* What one interaction meets on disk.  The sessions of the model run
\* against a mirror that answers faithfully; SpecPush and SpecCallers take
\* the mirror through its failures.
AllWell ==
    [annex |-> [write |-> "ok", push |-> FaithfulEnv],
     export |-> [save |-> "ok", push |-> FaithfulEnv],
     log |-> [read |-> "ok", write |-> "ok", fallback |-> "ok", push |-> FaithfulEnv]]

DiskFault ==
    [annex |-> [write |-> "fail", push |-> FaithfulEnv],
     export |-> [save |-> "fail", push |-> FaithfulEnv],
     log |-> [read |-> "ok", write |-> "other", fallback |-> "ok", push |-> FaithfulEnv]]

\* the report is saved, the write of the log fails
LogFault == [AllWell EXCEPT !.log.write = "other"]

\* the report and the log are saved, the mirror does not answer
MirrorFault ==
    [AllWell EXCEPT !.export.push.get = "exception", !.log.push.get = "exception"]

WizardEnvs == {AllWell, DiskFault}

\* what a click on Finish can meet
FinishEnvs == WizardEnvs \cup {LogFault, MirrorFault}

Session == SessionState(submission, annexDir, annex_saved_list, remote, nextSha)

\* the state a run of the script leaves
Rerun(r) ==
    /\ ws' = r.ws
    /\ crashed' = r.crashed
    /\ submission' = r.submission
    /\ annexDir' = r.annexDir
    /\ annex_saved_list' = r.annex_saved_list
    /\ annexLog' = annexLog \o r.annexRecs
    /\ remote' = r.remote
    /\ nextSha' = r.nextSha

\* What a run at step s with widget state w can meet: only a run that
\* saves annexes touches the disk and the network.
EnvsFor(s, w) ==
    IF s = 8 /\ Value(w, "annex_uploader", <<>>) # <<>> THEN WizardEnvs ELSE {AllWell}

\* the user changes the widget `key` to `value`
Edit(key, value, env) ==
    /\ key \in DOMAIN ws
    /\ value \in Choices(ws[key])
    /\ LET w == [ws EXCEPT ![key].value = value] IN
        /\ env \in EnvsFor(step, w)
        /\ \E r \in {RunScript(step, w, Session, clock, env)} : Rerun(r)
    /\ edits' = edits + 1
    /\ lastNav' = [op |-> "edit", from |-> step, before |-> NoSection]
    /\ UNCHANGED <<cfgVars, pushLog, logVars, clock, docVars, step, last_file, finish_msg>>

\* the user clicks "Next"
ClickNext(env) ==
    /\ HasNextButton(step) /\ ~crashed
    /\ step' = next_step(step)
    /\ env \in EnvsFor(step', ws)
    /\ \E r \in {RunScript(step', ws, Session, clock, env)} : Rerun(r)
    /\ lastNav' = [op |-> "next", from |-> step,
                   before |-> SectionOf(submission, step')]
    /\ UNCHANGED <<cfgVars, pushLog, logVars, clock, docVars, last_file, finish_msg, edits>>

\* the user clicks "Previous"
ClickPrev(env) ==
    /\ HasPrevButton(step) /\ ~crashed
    /\ step' = prev_step(step)
    /\ env \in EnvsFor(step', ws)
    /\ \E r \in {RunScript(step', ws, Session, clock, env)} : Rerun(r)
    /\ lastNav' = [op |-> "prev", from |-> step,
                   before |-> SectionOf(submission, step')]
    /\ UNCHANGED <<cfgVars, pushLog, logVars, clock, docVars, last_file, finish_msg, edits>>

\* the user clicks "Finish and Generate Report"
ClickFinish(env) ==
    /\ step = 8 /\ ~crashed
    /\ \E f \in {finish_and_save(Session, annexDir, docs, logs, clock, env)} :
          /\ docs' = f.docs
          /\ logs' = f.logs
          /\ exportLog' = Append(exportLog, f.exportRec)
          /\ saveLog' = saveLog \o f.saveRecs
          /\ last_file' = f.last_file
          /\ finish_msg' = f.finish_msg
          \* the script runs again on what the callback left
          /\ \E r \in {RunScript(step, ws,
                               SessionState(f.submission, annexDir, annex_saved_list,
                                            f.remote, f.nextSha),
                               clock, env)} : Rerun(r)
    /\ lastNav' = [op |-> "finish", from |-> step, before |-> NoSection]
    /\ UNCHANGED <<cfgVars, pushLog, inflight, clock, step, edits>>

\* datetime.now() moves on while the user is at the last step, the only
\* one whose run and callback read the clock
TickAtExport == step = 8 /\ Tick

\* a deployment mirrored to GitHub
Init ==
    /\ USE_GITHUB = TRUE
    /\ GITHUB_TOKEN = "tok"
    /\ GITHUB_REPO = "sergioalf14/repo"
    /\ FreshRemote /\ FreshLogs /\ clock = 1 /\ FreshAnnexes /\ FreshDocs /\ FreshWizard

\* what the user has done in the session, navigation aside
Interactions == edits + Len(exportLog)

SessionFinish(env) == Interactions < MaxInteractions /\ ClickFinish(env)

\* the widgets the user changes in Spec; SpecForm changes the others
SessionKeys == {"division", "annex_uploader"}

SessionEdit(key, value, env) ==
    /\ Interactions < MaxInteractions
    /\ key \in SessionKeys
    /\ Edit(key, value, env)

Next ==
    \/ \E key \in DOMAIN ws : \E value \in Choices(ws[key]) :
          \E env \in WizardEnvs : SessionEdit(key, value, env)
    \/ \E env \in WizardEnvs : ClickNext(env)
    \/ \E env \in WizardEnvs : ClickPrev(env)
    \/ \E env \in FinishEnvs : SessionFinish(env)
    \/ TickAtExport

Spec == Init /\ [][Next]_vars

\* SpecReport: a session of a deployment whose annex directory holds a file
\* stored by an earlier session; the directory is on disk (lines 36-37) and
\* outlives the session, annex_saved_list (line 130) does not.
InitReport ==
    /\ USE_GITHUB = TRUE
    /\ GITHUB_TOKEN = "tok"
    /\ GITHUB_REPO = "sergioalf14/repo"
    /\ FreshRemote /\ FreshLogs /\ clock = 1 /\ FreshDocs /\ FreshWizard
    /\ annexDir = [name \in {"a.pdf"} |-> "y"]
    /\ annex_saved_list = <<>>
    /\ annexLog = <<>>

SpecReport == InitReport /\ [][Next]_vars

----------------------------------------------------------------------------
(* SpecForm: the forms of steps 1..7 filled in, with Next and Previous *)

FormEdit(key, value) ==
    /\ edits < MaxEdits
    /\ ws[key].kind # "files"
    /\ Edit(key, value, AllWell)

NextForm ==
    \/ \E key \in DOMAIN ws : \E value \in Choices(ws[key]) : FormEdit(key, value)
    \/ ClickNext(AllWell)
    \/ ClickPrev(AllWell)

SpecForm == Init /\ [][NextForm]_vars

----------------------------------------------------------------------------
(* SpecTree: the forms of SpecForm and the Finish button of step 8 *)

\* the edits and the Finish clicks share the budget of SpecForm
TreeEdit(key, value) ==
    /\ Interactions < MaxEdits
    /\ ws[key].kind # "files"
    /\ Edit(key, value, AllWell)

TreeFinish == Interactions < MaxEdits /\ ClickFinish(AllWell)

NextTree ==
    \/ \E key \in DOMAIN ws : \E value \in Choices(ws[key]) : TreeEdit(key, value)
    \/ ClickNext(AllWell)
    \/ ClickPrev(AllWell)
    \/ TreeFinish

SpecTree == Init /\ [][NextTree]_vars

----------------------------------------------------------------------------
(* SpecGate: a session that has selected the goal G1 and its objective A1  *)
(* and has walked to step 6; from there the user answers the gate, fills   *)
(* the metrics, walks on and clicks Finish                                 *)

\* a session on its way: the step, the widget state and the submission
FreshSession ==
    [step |-> 1, ws |-> WidgetState(Step1Calls(<<>>)),
     submission |-> Put(EmptyDict, Owner(1), Step1Cover(<<>>))]

\* the run of the script that draws step s (after Next or Previous)
Arrive(at, s) ==
    CHOOSE landed \in
        {[step |-> s, ws |-> r.ws, submission |-> r.submission] :
            r \in {RunScript(s, a.ws, SessionState(a.submission, EmptyDict, <<>>, EmptyDict, 1),
                             1, AllWell) : a \in {at}}} : TRUE

\* the user gives the widget `key` the value `value`, and the run that follows
Enter(at, key, value) ==
    CHOOSE landed \in {Arrive([a EXCEPT !.ws[key].value = value], a.step) : a \in {at}} : TRUE

AtGoals == Enter(Arrive(FreshSession, 2), "selected_goals", <<"G1">>)
AtObjectives == Enter(Arrive(AtGoals, 3), "agg_0", <<"A1">>)
AtGate == Arrive(Arrive(Arrive(AtObjectives, 4), 5), 6)

InitGate ==
    /\ USE_GITHUB = TRUE
    /\ GITHUB_TOKEN = "tok"
    /\ GITHUB_REPO = "sergioalf14/repo"
    /\ FreshRemote /\ FreshLogs /\ clock = 1 /\ FreshAnnexes /\ FreshDocs
    /\ \E at \in {AtGate} :
          /\ step = at.step
          /\ ws = at.ws
          /\ submission = at.submission
    /\ last_file = None
    /\ finish_msg = None
    /\ crashed = FALSE
    /\ edits = 0
    /\ lastNav = [op |-> "next", from |-> 5, before |-> NoSection]

GateEdit(key, value) ==
    /\ Interactions < MaxGateInteractions
    /\ ws[key].kind \in {"radio", "metric"}
    /\ Edit(key, value, AllWell)

GateFinish == Interactions < MaxGateInteractions /\ ClickFinish(AllWell)

NextGate ==
    \/ \E key \in DOMAIN ws : \E value \in Choices(ws[key]) : GateEdit(key, value)
    \/ ClickNext(AllWell)
    \/ ClickPrev(AllWell)
    \/ GateFinish

SpecGate == InitGate /\ [][NextGate]_vars

----------------------------------------------------------------------------
(* SpecNav: the callbacks next_step and prev_step called directly *)

CallNextStep ==
    /\ step < MaxNavStep
    /\ step' = next_step(step)
    /\ lastNav' = [op |-> "next_step", from |-> step, before |-> NoSection]
    /\ UNCHANGED <<cfgVars, netVars, logVars, clock, annexVars, docVars,
                   submission, last_file, finish_msg, ws, crashed, edits>>

CallPrevStep ==
    /\ step' = prev_step(step)
    /\ lastNav' = [op |-> "prev_step", from |-> step, before |-> NoSection]
    /\ UNCHANGED <<cfgVars, netVars, logVars, clock, annexVars, docVars,
                   submission, last_file, finish_msg, ws, crashed, edits>>

InitNav == InitCallers

NextNav == CallNextStep \/ CallPrevStep

SpecNav == InitNav /\ [][NextNav]_vars

----------------------------------------------------------------------------
(* Claims about the remote sync client *)

\* The transport served the call: the local file was read and the store
\* answered the GET (and the PUT) as it stands.
GetServed(c) == c.env.local = "ok" /\ c.env.get = "faithful"
Served(c) == GetServed(c) /\ c.env.put = "faithful"

\* C5: of two consecutive calls of push_file_to_github on the same remote
\* path, the first successful, the second is an update: its GET finds the
\* record (200), its PUT payload carries the revision marker the first call
\* left, and when the store answers the PUT the second call returns success,
\* with identical as with different content.
C5_SecondCallIsUpdate ==
    \A i \in 1..(Len(pushLog) - 1) :
        LET a == pushLog[i]
            b == pushLog[i + 1]
        IN  (a.path = b.path /\ a.ok /\ GetServed(b)) =>
                /\ b.getStatus = 200
                /\ "sha" \in DOMAIN b.payload
                /\ b.payload.sha = a.marker
                /\ b.payload.message = "Update " \o b.path
                /\ (Served(b) => b.ok /\ b.putStatus = 200 /\ b.marker # a.marker)

\* C5 witness: a create (201) followed by a successful update (200) of the
\* same path with different content.
C5_Witness ==
    /\ Len(pushLog) >= 2
    /\ pushLog[1].path = pushLog[2].path
    /\ pushLog[1].ok /\ pushLog[1].putStatus = 201
    /\ pushLog[2].ok /\ pushLog[2].putStatus = 200
    /\ pushLog[1].bytes # pushLog[2].bytes

\* C6: with remote sync disabled by the toggle, or no token, or no
\* repository identifier, every call of push_file_to_github returns the
\* not-configured failure and issues neither a GET nor a PUT.
C6_NotConfiguredNoNetwork ==
    (~USE_GITHUB \/ GITHUB_TOKEN = None \/ GITHUB_REPO = "") =>
        \A i \in 1..Len(pushLog) :
            /\ ~pushLog[i].ok
            /\ pushLog[i].kind = "not_configured"
            /\ pushLog[i].nGet = 0
            /\ pushLog[i].nPut = 0
            /\ nextSha = 1

\* C6 witness: a call made with the toggle on and a repository but no token.
C6_Witness ==
    /\ USE_GITHUB /\ GITHUB_TOKEN = None /\ GITHUB_REPO # ""
    /\ Len(pushLog) >= 1
    /\ pushLog[1].kind = "not_configured"

----------------------------------------------------------------------------
(* Claims about the master log *)

\* No call so far met a transient fault: every read of a readable log and
\* every write at the log path succeeded.
NoLogFault == \A i \in 1..Len(saveLog) : saveLog[i].env.read = "ok" /\ saveLog[i].env.write = "ok"

\* The rows the log held before the first call (none when there was no log
\* or an unreadable one).
RowsBefore == IF saveLog[1].before[MASTER_LOG].kind = "table"
              THEN saveLog[1].before[MASTER_LOG].rows ELSE <<>>

AppendedRows == [i \in 1..Len(saveLog) |-> ToExcelRow(saveLog[i].row)]

\* C7: after N calls of save_to_master_excel with distinct rows, none of
\* which met a read or write fault, the log holds the rows it held before
\* followed by exactly those N rows in call order, whether the log existed
\* before the first call or not; every call returned success.
C7_RowsInCallOrder ==
    (Len(saveLog) >= 1 /\ NoLogFault) =>
        /\ logs[MASTER_LOG] = Table(RowsBefore \o AppendedRows)
        /\ \A i \in 1..Len(saveLog) : saveLog[i].ok

\* C7 witness: two rows appended after the row of an earlier run.
C7_Witness ==
    /\ Len(saveLog) = 2 /\ NoLogFault
    /\ Len(RowsBefore) = 1
    /\ Len(logs[MASTER_LOG].rows) = 3
    /\ logs[MASTER_LOG].rows[2].timestamp = 1
    /\ logs[MASTER_LOG].rows[3].timestamp = 2

\* The file a call wrote, and whether it wrote one.
Wrote(c) == c.env.write = "ok" \/ (c.env.write = "permission" /\ c.env.fallback = "ok")

\* C8: a call that finds the log present but unreadable returns success
\* whenever its write (at the log path or at the fallback) succeeds, the
\* table it writes holds the new row alone, and when it fails the failure
\* is that of the write, never of the read.
C8_UnreadableLogDiscarded ==
    \A i \in 1..Len(saveLog) :
        LET c == saveLog[i] IN
        c.readFailed =>
            /\ c.ok = Wrote(c)
            /\ c.ok => c.after[c.local_master] = Table(<<ToExcelRow(c.row)>>)
            /\ ~c.ok => c.kind \in {"write_failed", "fallback_failed"}

\* C8 witness: a corrupt log found by a call that then succeeds.
C8_Witness ==
    /\ Len(saveLog) >= 1
    /\ saveLog[1].before[MASTER_LOG] = Corrupt
    /\ saveLog[1].readFailed /\ saveLog[1].ok
    /\ logs[MASTER_LOG] = Table(<<ToExcelRow(saveLog[1].row)>>)

----------------------------------------------------------------------------
(* Claims about the annexes *)

\* C9: every saved annex has a stored path distinct from all earlier stored
\* paths (no save writes where a file was stored before); in particular two
\* saves of the same name are stored at two distinct paths.
C9_StoredPathsDistinct ==
    \A i, j \in 1..Len(annex_saved_list) :
        i # j => annex_saved_list[i][2] # annex_saved_list[j][2]

----------------------------------------------------------------------------
(* Claims about the callers of push_file_to_github *)

\* The local part of what save_annexes_immediate returns for a file.
LocalSaved(saved) == [k \in 1..Len(saved) |-> [name |-> saved[k].name,
                                               path |-> saved[k].path, ok |-> saved[k].ok]]

\* envs with the mirror outcome e put in place of every file's
WithPush(envs, e) == [k \in 1..Len(envs) |-> [envs[k] EXCEPT !.push = e]]

\* C10: whatever the mirror's outcome (not configured, GET failure, PUT
\* failure, transport exception, success), each caller's local result is
\* the one it has under any other outcome of the mirror, a successful one
\* included, and is decided by its local write alone: save_to_master_excel
\* returns success and the log stays written, export_word returns the path
\* of the saved report, save_annexes_immediate reports the file saved and
\* keeps it; the mirror's outcome shows only in the message.
C10_MirrorIsAdvisory ==
    /\ \A i \in 1..Len(saveLog) :
          LET c == saveLog[i] IN
          /\ c.ok = Wrote(c)
          /\ Wrote(c) =>
                /\ c.after[c.local_master].kind = "table"
                /\ c.after[c.local_master].rows[Len(c.after[c.local_master].rows)]
                      = ToExcelRow(c.row)
                /\ (c.kind = "ok") = c.push.ok
                /\ (c.kind = "ok_local_only") = ~c.push.ok
          /\ \A e \in PushEnvs :
                LET alt == save_to_master_excel(c.row, c.before, remote, nextSha,
                                                [c.env EXCEPT !.push = e])
                IN  /\ alt.ok = c.ok
                    /\ alt.logs = c.after
                    /\ alt.local_master = c.local_master
    /\ \A i \in 1..Len(exportLog) :
          LET c == exportLog[i] IN
          /\ (c.filepath # None) = (c.env.save = "ok")
          /\ c.env.save = "ok" =>
                /\ c.filepath = ReportPath(ReportName(c.data, c.now))
                /\ c.filepath \in DOMAIN c.after
                /\ c.after[c.filepath] = Document(c.data)
          /\ \A e \in PushEnvs :
                LET alt == export_word(c.data, c.before, remote, nextSha, c.now,
                                       [c.env EXCEPT !.push = e])
                IN  /\ alt.filepath = c.filepath
                    /\ alt.filename = c.filename
                    /\ alt.docs = c.after
    /\ \A i \in 1..Len(annexLog) :
          LET c == annexLog[i] IN
          /\ \A k \in 1..Len(c.files) :
                /\ c.saved[k].ok = (c.envs[k].write = "ok")
                /\ c.saved[k].ok =>
                      \E name \in DOMAIN c.after :
                          /\ c.saved[k].path = AnnexPath(name)
                          /\ \E j \in 1..Len(annex_saved_list) :
                                annex_saved_list[j] = <<FileName(c.files[k]), c.saved[k].path>>
          /\ \A e \in PushEnvs :
                LET alt == save_annexes_immediate(c.files, c.before, <<>>, remote,
                                                  nextSha, c.now, WithPush(c.envs, e))
                IN  /\ alt.annexDir = c.after
                    /\ LocalSaved(alt.saved) = LocalSaved(c.saved)

\* C10 witness: the log written and reported as success by a call whose
\* mirror PUT was answered with an error status.
C10_Witness ==
    /\ Len(saveLog) = 1
    /\ saveLog[1].ok /\ saveLog[1].kind = "ok_local_only"
    /\ saveLog[1].push.kind = "upload_failed"
    /\ logs[saveLog[1].local_master].kind = "table"

----------------------------------------------------------------------------
(* Claims about the wizard *)

\* C1: a section of the submission that was populated before a click on
\* Previous has the same value once the step that owns it has been rendered
\* again by that click.
C1_SectionSurvivesRoundTrip ==
    (lastNav.op = "prev" /\ lastNav.before.has /\ ~crashed)
        => submission[Owner(step)] = lastNav.before.value

\* the goals with an entry in an Aggregate Objectives dict
GoalsOf(ao) == Range(ODKeys(ao))

\* C2: when step 3 is rendered on arrival from another step, the Aggregate
\* Objectives it writes has no key for a goal that is not selected (so none
\* for a goal deselected at step 2), the run does not raise, and every goal
\* still selected keeps the list it had before.
C2_DeselectedGoalDropped ==
    (step = 3 /\ lastNav.op \in {"next", "prev"}) =>
        LET ao == submission["Aggregate Objectives"]
            sel == Range(submission["Selected Goals"])
            old == lastNav.before
        IN  /\ ~crashed
            /\ GoalsOf(ao) = sel
            /\ \A g \in sel :
                  (old.has /\ ODHas(old.value, g))
                      => ODGet(ao, g, <<>>) = ODGet(old.value, g, <<>>)

\* step 3 has just been rendered after a goal with an entry was deselected,
\* another goal with objectives staying selected
C2_Witness ==
    /\ step = 3 /\ lastNav.op = "next" /\ lastNav.before.has
    /\ \E g \in GoalsOf(lastNav.before.value) :
          g \notin Range(submission["Selected Goals"])
    /\ \E g \in Range(submission["Selected Goals"]) :
          /\ ODGet(lastNav.before.value, g, <<>>) # <<>>
          /\ ODGet(submission["Aggregate Objectives"], g, <<>>) # <<>>

\* C3: in a session driven by the widgets and the buttons Next, Previous and
\* Finish, the current step is one of the steps 1..8 that the script renders.
C3_StepInRange == step \in 1..NumSteps

\* Finish has been clicked at the last step
C3_Witness == step = NumSteps /\ lastNav.op = "finish" /\ last_file # None

\* C4: next_step() adds one to the step unless the step is the last one,
\* which it leaves as it is; prev_step() takes one off unless the step is 1,
\* which it leaves as it is.
C4_NavigationContract ==
    /\ lastNav.op = "next_step" =>
          step = IF lastNav.from # NumSteps THEN lastNav.from + 1 ELSE lastNav.from
    /\ lastNav.op = "prev_step" =>
          step = IF lastNav.from > 1 THEN lastNav.from - 1 ELSE lastNav.from

\* C11: in every state of a session, every key of the Aggregate Objectives
\* mapping is one of the Selected Goals.
C11_ObjectiveKeysAreSelected ==
    ("Aggregate Objectives" \in DOMAIN submission /\ "Selected Goals" \in DOMAIN submission)
        => GoalsOf(submission["Aggregate Objectives"])
              \subseteq Range(submission["Selected Goals"])

\* C12: two sessions whose reads and writes of the log interleave can both
\* report success while the log ends with one row only: of two calls that
\* both succeeded at the primary location, the log holds what the later
\* writer read and its row, so the earlier writer's row is gone when the later
\* writer had read before that write, and is there when it read afterwards.
ReportedSuccess(p) ==
    /\ inflight[p].pc = "done"
    /\ inflight[p].ok
    /\ inflight[p].local_master = MASTER_LOG

InLog(p) ==
    /\ logs[MASTER_LOG].kind = "table"
    /\ \E i \in 1..Len(logs[MASTER_LOG].rows) :
          logs[MASTER_LOG].rows[i] = ToExcelRow(RaceRow(p))

C12_InterleavedAppendLosesRow ==
    \A p, q \in Sessions :
        (/\ p # q
         /\ ReportedSuccess(p) /\ ReportedSuccess(q)
         /\ inflight[p].wroteAt < inflight[q].wroteAt)
        => /\ logs[MASTER_LOG] = ToExcel(inflight[q].df_old \o <<RaceRow(q)>>)
           /\ InLog(q)
           /\ inflight[q].readAt < inflight[p].wroteAt => ~InLog(p)
           /\ (inflight[q].readAt > inflight[p].wroteAt /\ inflight[q].read = "ok")
                 => InLog(p)

C12_Witness ==
    \E p, q \in Sessions :
        /\ p # q
        /\ ReportedSuccess(p) /\ ReportedSuccess(q)
        /\ inflight[p].read = "ok" /\ inflight[q].read = "ok"
        /\ inflight[q].readAt < inflight[p].wroteAt
        /\ inflight[p].wroteAt < inflight[q].wroteAt
        /\ InLog(q) /\ ~InLog(p)

\* C13: a report built from an empty annex list carries the line
\* "No annexes uploaded." and no bullet in its annex section; a report built
\* from a list that is not empty carries one bullet per annex and not that line.
Exported(i) == exportLog[i].filepath # None

ReportOf(i) == exportLog[i].after[exportLog[i].filepath]

AnnexItems(i) == Get(exportLog[i].data, "Annexes_Saved", <<>>)

C13_AnnexSectionShape ==
    \A i \in 1..Len(exportLog) :
        Exported(i) =>
            IF AnnexItems(i) = <<>>
            THEN /\ ReportOf(i).annexes.lines = <<"No annexes uploaded.">>
                 /\ ReportOf(i).annexes.bullets = <<>>
            ELSE /\ Len(ReportOf(i).annexes.bullets) = Len(AnnexItems(i))
                 /\ \A j \in 1..Len(ReportOf(i).annexes.lines) :
                       ReportOf(i).annexes.lines[j] # "No annexes uploaded."

C13_Witness ==
    \E i \in 1..Len(exportLog) :
        /\ Exported(i)
        /\ Len(AnnexItems(i)) = 2
        /\ ReportOf(i).annexes.bullets = <<"a_1.pdf", "b.pdf">>

\* C14: with Selected Goals = [G] and Aggregate Objectives = {G: [A]}, once
\* the step that follows Aggregate Objectives is passed without asking for
\* specific objectives, the tree holds the sentinel ["None"] for the pair
\* (G, A), and the report has no section of specific objectives.
OneGoalOneObjective ==
    /\ Get(submission, "Selected Goals", <<>>) = <<"G1">>
    /\ Get(submission, "Aggregate Objectives", <<>>) = <<[k |-> "G1", v |-> <<"A1">>]>>

C14_GateNoLeavesSentinel ==
    (step >= 5 /\ OneGoalOneObjective)
        => /\ ODGet(Get(submission, "Specific Objectives", <<>>), <<"G1", "A1">>, <<>>)
                = <<"None">>
           /\ "specific_objectives" \notin DOMAIN Document(submission)

\* C15: a call of push_file_to_github sends its PUT only after a GET that
\* answered 200 or 404; it returns success exactly when the PUT answered 200
\* or 201; a GET that raised or answered anything else gives a failure
\* result, and no PUT follows it.
GetFailed(i) ==
    /\ pushLog[i].nGet = 1
    /\ pushLog[i].env.get \in {"error", "exception"}

C15_PutOnlyAfterGet ==
    \A i \in 1..Len(pushLog) :
        /\ pushLog[i].nPut = 1
              => (pushLog[i].nGet = 1 /\ pushLog[i].getStatus \in {200, 404})
        /\ pushLog[i].ok
              <=> (pushLog[i].nPut = 1 /\ pushLog[i].putStatus \in {200, 201})
        /\ GetFailed(i)
              => /\ ~pushLog[i].ok
                 /\ pushLog[i].nPut = 0
                 /\ pushLog[i].kind \in {"get_failed", "get_error"}

C15_Witness ==
    \E i, j \in 1..Len(pushLog) :
        /\ GetFailed(i) /\ pushLog[i].getStatus = 500 /\ pushLog[i].nPut = 0
        /\ pushLog[j].ok /\ pushLog[j].getStatus = 404 /\ pushLog[j].putStatus = 201

\* C16: the payload of every PUT carries the revision marker when the GET
\* before it answered 200 and carries none when it answered 404, so that a
\* record that exists is never written with the payload of a create.
C16_ShaWheneverRecordExists ==
    \A i \in 1..Len(pushLog) :
        pushLog[i].nPut = 1 =>
            /\ pushLog[i].getStatus = 200
                  => /\ "sha" \in DOMAIN pushLog[i].payload
                     /\ pushLog[i].payload.message = "Update " \o pushLog[i].path
            /\ pushLog[i].getStatus = 404 => "sha" \notin DOMAIN pushLog[i].payload

\* C17: in a run of successful calls of save_to_master_excel whose reads all
\* succeed, calls redirected to the fallback path included, the table the
\* k-th call writes holds the rows of the calls 1..k in call order after the
\* rows the log held before: no row reported as appended is missing later.
SucceededUpTo(k) ==
    \A i \in 1..k :
        /\ saveLog[i].ok
        /\ saveLog[i].env.read = "ok"
        /\ ~saveLog[i].readFailed

WrittenBy(k) == saveLog[k].after[saveLog[k].local_master]

C17_WrittenTableKeepsRows ==
    \A k \in 1..Len(saveLog) :
        SucceededUpTo(k) =>
            WrittenBy(k) = Table(RowsBefore \o SubSeq(AppendedRows, 1, k))

\* C18: the annex section of a report generated by Finish lists, for each
\* annex saved in the session, the name it was uploaded under, also when the
\* file was stored under a disambiguated name.
C18_ReportListsOriginalNames ==
    \A i \in 1..Len(exportLog) :
        Exported(i) =>
            /\ Len(ReportOf(i).annexes.bullets) <= Len(annex_saved_list)
            /\ \A j \in 1..Len(ReportOf(i).annexes.bullets) :
                  ReportOf(i).annexes.bullets[j] = annex_saved_list[j][1]

\* C19: save_to_master_excel returns failure only after a write at the
\* fallback location failed: whatever fails the write at the log path, the
\* write is retried at the fallback, and the call succeeds when that write
\* does.
C19_FailureOnlyAfterFallback ==
    \A i \in 1..Len(saveLog) :
        /\ ~saveLog[i].ok => saveLog[i].kind = "fallback_failed"
        /\ (saveLog[i].env.write = "permission" /\ saveLog[i].env.fallback = "ok")
              => (saveLog[i].ok /\ saveLog[i].local_master = FallbackLog)

\* C20: a Finish appends a row to the log only after its report is built
\* and saved.  When export_word fails no append is made, last_file is None
\* and the step stays; when it succeeds exactly one append is made for that
\* Finish, with the row of its submission, the log gaining the row when the
\* write succeeds, and last_file is the path of the report whatever the
\* write of the log and the mirror come to.
ExportedUpTo(i) == Cardinality({j \in 1..i : Exported(j)})

\* the Finish that made the k-th append
FinishOf(k) == CHOOSE i \in 1..Len(exportLog) : Exported(i) /\ ExportedUpTo(i) = k

ObjectiveMetrics(sub) == Get(sub, "Objective/Result Metrics", <<>>)

GateAt(answer) ==
    /\ step = 6
    /\ "opt_obj_res" \in DOMAIN ws
    /\ ws["opt_obj_res"].value = answer

LeftStep6 == step \in 6..8 /\ step' \in 7..8

Finished == Len(exportLog') = Len(exportLog) + 1 /\ exportLog'[Len(exportLog')].filepath # None

C21_GateNoCollapses ==
    /\ [](GateAt("No") => ObjectiveMetrics(submission) = <<>>)
    /\ [][LeftStep6 => ObjectiveMetrics(submission') = ObjectiveMetrics(submission)]_vars
    /\ [][Finished =>
            docs'[exportLog'[Len(exportLog')].filepath].objective_metrics
                = ObjectiveMetrics(submission)]_vars

\* C21 witness: a report exported with the empty mapping by a session that
\* made three edits (such as "Yes", a value, "No" at step 6) while the
\* objective A1 had metrics to fill.
C21_Witness ==
    /\ edits = 3
    /\ Len(exportLog) = 1 /\ Exported(1)
    /\ ReportOf(1).objective_metrics = <<>>
    /\ ReportOf(1).activities # <<>>
    /\ ReportOf(1).goal_metrics = AtGate.submission["Goal Metrics"]

\* C22: the custom-objective boxes of step 3 come back as they were entered
\* when the step is drawn again after the user navigated away: the same
\* number of boxes for each goal and the same text at each index, blank
\* boxes included.  The widgets a later run draws are those the stored
\* section yields with no widget state kept, so the claim is that the boxes
\* on screen at step 3 are the boxes the stored section would draw.
RedrawnStep3 == WidgetState(Step3Calls(<<>>, submission))

CustomKeys == {key \in DOMAIN ws : ws[key].kind \in {"number", "custom"}}

C22_CustomBoxesSurvive ==
    (step = 3 /\ ~crashed) =>
        \A key \in CustomKeys :
            /\ key \in DOMAIN RedrawnStep3
            /\ RedrawnStep3[key].value = ws[key].value

\* C23: the submission every Finish works on is consistent, whatever edits
\* and navigation led to it: the keys of Aggregate Objectives are the
\* Selected Goals, the keys of Activities are the (goal, objective) pairs of
\* Aggregate Objectives, the keys of Goal Metrics are the Selected Goals, and
\* every key of Objective/Result Metrics starts with a key of Activities.
ObjectivePairs(ao) ==
    UNION {{<<ao[i].k, ao[i].v[j]>> : j \in 1..Len(ao[i].v)} : i \in 1..Len(ao)}

ConsistentTree(sub) ==
    LET sel == Get(sub, "Selected Goals", <<>>)
        ao == Get(sub, "Aggregate Objectives", <<>>)
        act == Get(sub, "Activities", <<>>)
        gm == Get(sub, "Goal Metrics", <<>>)
        orm == Get(sub, "Objective/Result Metrics", <<>>)
    IN  /\ Range(ODKeys(ao)) = Range(sel)
        /\ Range(ODKeys(act)) = ObjectivePairs(ao)
        /\ Range(ODKeys(gm)) = Range(sel)
        /\ \A i \in 1..Len(orm) : <<orm[i].k[1], orm[i].k[2]>> \in Range(ODKeys(act))

C23_TreeConsistentAtFinish ==
    \A i \in 1..Len(exportLog) : ConsistentTree(exportLog[i].data)

\* C23 witness: a Finish after three edits that left the goal G2 alone
\* selected (G1 selected, G2 selected, G1 deselected), each goal's sections
\* having been written while it was selected.
C23_Witness ==
    /\ edits = 3
    /\ Len(exportLog) = 1
    /\ Get(exportLog[1].data, "Selected Goals", <<>>) = <<"G2">>
    /\ ODKeys(Get(exportLog[1].data, "Aggregate Objectives", <<>>)) = <<"G2">>
    /\ ODKeys(Get(exportLog[1].data, "Goal Metrics", <<>>)) = <<"G2">>
    /\ Get(exportLog[1].data, "Activities", <<>>) = <<>>

\* C24: a file uploaded at step 8 is written to the annex directory and
\* recorded in annex_saved_list once, however often step 8 is drawn again
\* while the uploader holds it.  An edit of the uploader adds one file at
\* most, so the list has no more entries, and the directory no more files,
\* than the session has edits.
C24_AnnexSavedOnce ==
    /\ Len(annex_saved_list) <= edits
    /\ Cardinality(DOMAIN annexDir) <= edits
    /\ Len(Get(submission, "Annexes_Saved", <<>>)) <= edits

\* C25: with the gate of step 6 at "Yes", the Objective/Result Metrics has
\* one entry for each key of Activities (tag AGGREGATE) and one more for
\* each expected-result line stored under that key, and every entry has
\* input fields of its own: the run draws no key twice.
ExpectedEntries(sub) ==
    LET am == Get(sub, "Activities", <<>>) IN
    Len(Flatten([i \in 1..Len(am) |-> <<"AGGREGATE">> \o am[i].v.results]))

C25_OneEntryPerTarget ==
    GateAt("Yes") =>
        /\ ~crashed
        /\ ~HasDuplicateKey(Step6Calls(ws, submission))
        /\ Len(ObjectiveMetrics(submission)) = ExpectedEntries(submission)

\* C26: a run that draws step k, k in 1..7, changes no section of the
\* submission but the one of step k, and leaves the annex list and the step
\* counter as they are; a click on Next or Previous moves the step counter by
\* one and changes nothing of the submission but what the run of the step it
\* lands on writes.
SectionTitles ==
    <<"Cover", "Selected Goals", "Aggregate Objectives", "Activities", "Goal Metrics",
      "Objective/Result Metrics", "Additional">>

OtherSectionsKept ==
    \A name \in (DOMAIN submission \cup DOMAIN submission') \ {SectionTitles[step']} :
        /\ name \in DOMAIN submission
        /\ name \in DOMAIN submission'
        /\ submission'[name] = submission[name]

DrewFormStep ==
    /\ step' \in 1..7
    /\ lastNav'.op \in {"edit", "next", "prev"}

C26_RunWritesOwnSection ==
    [][DrewFormStep =>
          /\ OtherSectionsKept
          /\ annex_saved_list' = annex_saved_list
          /\ lastNav'.op = "edit" => step' = step
          /\ lastNav'.op = "next" => step' = step + 1
          /\ lastNav'.op = "prev" => step' = step - 1]_vars

\* C26 witness: step 5 has just written the metrics of G1 after an edit,
\* the sections of the steps before it being populated.
C26_Witness ==
    /\ step = 5 /\ lastNav.op = "edit"
    /\ submission["Selected Goals"] = <<"G1">>
    /\ ObjectivePairs(submission["Aggregate Objectives"]) = {<<"G1", "A1">>}
    /\ ODKeys(submission["Activities"]) = << <<"G1", "A1">> >>
    /\ ODGet(submission["Goal Metrics"], "G1", EmptyDict)["FTEs"] = "5"

============================================================================
